---------------------------- MODULE Spec2Model ----------------------------
(***************************************************************************)
(* JSONFrameSerializer (jarvis-agent client): the JSON wire codec for      *)
(* frames, audio and RTVI messages.  JavaScript values are modelled as     *)
(* tagged records, the wire as real JSON text (TLA+ strings), and every    *)
(* method of the class as an operator computing what the method computes.  *)
(***************************************************************************)
EXTENDS Integers, Sequences, FiniteSets, TLC

(***************************************************************************)
(* JavaScript values.  An object is its class name (the name of the        *)
(* constructor found on its prototype) and its own enumerable properties   *)
(* in insertion order.  An array carries the __isTuple__ flag the code     *)
(* sets on tuple-shaped arrays.                                            *)
(***************************************************************************)
Undefined == [k |-> "undefined"]
Null == [k |-> "null"]
NaN == [k |-> "nan"]
Bool(b) == [k |-> "boolean", b |-> b]
Num(n) == [k |-> "number", n |-> n]
Str(s) == [k |-> "string", s |-> s]
Func(src) == [k |-> "function", src |-> src]
Bytes(b) == [k |-> "Uint8Array", bytes |-> b]
Int16(b) == [k |-> "Int16Array", bytes |-> b]
List(items, isTuple) == [k |-> "array", items |-> items, isTuple |-> isTuple]
Obj(cls, props) == [k |-> "object", cls |-> cls, props |-> props]
Prop(key, val) == [key |-> key, val |-> val]
\* A reference, held inside an object or an array, to an object or array
\* that encloses it: the place where a structure closes a cycle.
Cycle == [k |-> "cycle"]

\* A thrown exception, as the outcome of an evaluation.
Throw(err) == [k |-> "throw", err |-> err]
IsThrow(r) == r.k = "throw"

\* typeof value
TypeOf(v) ==
  CASE v.k = "undefined" -> "undefined"
    [] v.k \in {"number", "nan"} -> "number"
    [] v.k = "boolean" -> "boolean"
    [] v.k = "string" -> "string"
    [] v.k = "function" -> "function"
    [] OTHER -> "object"

\* The truthiness test of `!x` and `x || y`.
Truthy(v) ==
  CASE v.k \in {"undefined", "null", "nan"} -> FALSE
    [] v.k = "boolean" -> v.b
    [] v.k = "number" -> v.n # 0
    [] v.k = "string" -> v.s # ""
    [] OTHER -> TRUE

(***************************************************************************)
(* Strings.                                                                *)
(***************************************************************************)
CharAt(s, i) == SubSeq(s, i, i)
StartsWith(s, p) == Len(s) >= Len(p) /\ SubSeq(s, 1, Len(p)) = p
\* The characters i..j of s that exist.
Slice(s, i, j) == SubSeq(s, i, IF j > Len(s) THEN Len(s) ELSE j)

RECURSIVE Join(_, _)
\* Array.prototype.join over a sequence of strings.
Join(parts, sep) ==
  IF Len(parts) = 0 THEN ""
  ELSE IF Len(parts) = 1 THEN parts[1]
  ELSE parts[1] \o sep \o Join(Tail(parts), sep)

RECURSIVE ToStr(_)
\* String(value)
ToStr(v) ==
  CASE v.k = "undefined" -> "undefined"
    [] v.k = "null" -> "null"
    [] v.k = "nan" -> "NaN"
    [] v.k = "boolean" -> IF v.b THEN "true" ELSE "false"
    [] v.k = "number" -> ToString(v.n)
    [] v.k = "string" -> v.s
    [] v.k = "function" -> v.src
    [] v.k \in {"Uint8Array", "Int16Array"} ->
         Join([i \in 1..Len(v.bytes) |-> ToString(v.bytes[i])], ",")
    [] v.k = "array" ->
         Join([i \in 1..Len(v.items) |->
                 IF v.items[i].k \in {"undefined", "null"} THEN ""
                 ELSE ToStr(v.items[i])], ",")
    [] OTHER -> "[object Object]"

(***************************************************************************)
(* Property access.                                                        *)
(***************************************************************************)
\* The property names every plain object inherits from Object.prototype.
ObjectPrototypeKeys ==
  {"constructor", "toString", "toLocaleString", "valueOf", "hasOwnProperty",
   "isPrototypeOf", "propertyIsEnumerable", "__proto__", "__defineGetter__",
   "__defineSetter__", "__lookupGetter__", "__lookupSetter__"}

\* The own enumerable properties of a value, in for-in order.
OwnProps(v) ==
  CASE v.k = "object" -> v.props
    [] v.k = "string" ->
         [i \in 1..Len(v.s) |-> Prop(ToString(i - 1), Str(CharAt(v.s, i)))]
    [] v.k \in {"Uint8Array", "Int16Array"} ->
         [i \in 1..Len(v.bytes) |-> Prop(ToString(i - 1), Num(v.bytes[i]))]
    [] v.k = "array" ->
         [i \in 1..Len(v.items) |-> Prop(ToString(i - 1), v.items[i])]
           \o (IF v.isTuple THEN <<Prop("__isTuple__", Bool(TRUE))>> ELSE <<>>)
    [] OTHER -> <<>>

\* Object.prototype.hasOwnProperty.call(v, key)
HasOwn(v, key) == \E i \in 1..Len(OwnProps(v)) : OwnProps(v)[i].key = key

OwnValue(v, key) ==
  OwnProps(v)[CHOOSE i \in 1..Len(OwnProps(v)) : OwnProps(v)[i].key = key].val

\* The class name of a value: the name of the constructor on its prototype.
ClassName(v) ==
  CASE v.k = "object" -> v.cls
    [] v.k = "array" -> "Array"
    [] v.k = "string" -> "String"
    [] v.k \in {"number", "nan"} -> "Number"
    [] v.k = "boolean" -> "Boolean"
    [] v.k = "function" -> "Function"
    [] OTHER -> v.k

\* `key in v` for an object v: own or inherited.
In(key, v) == HasOwn(v, key) \/ key \in ObjectPrototypeKeys

\* v[key] for a value that is neither null nor undefined.  An inherited
\* `constructor` is the class, read here as an object holding its name; the
\* other inherited members are functions.
Get(v, key) ==
  IF HasOwn(v, key) THEN OwnValue(v, key)
  ELSE IF key = "constructor" THEN Obj("Function", <<Prop("name", Str(ClassName(v)))>>)
  ELSE IF key \in ObjectPrototypeKeys THEN Func("function () { [native code] }")
  ELSE IF key = "name" /\ v.k = "function" THEN Str("")
  ELSE Undefined

\* obj[key] = val on an ordered property list: replace in place or append.
SetProp(props, key, val) ==
  IF \E i \in 1..Len(props) : props[i].key = key
  THEN [i \in 1..Len(props) |-> IF props[i].key = key THEN Prop(key, val) ELSE props[i]]
  ELSE Append(props, Prop(key, val))

(***************************************************************************)
(* Base64: btoa over the characters of String.fromCharCode(...bytes), and  *)
(* atob (the forgiving-base64 decode of the HTML standard).                *)
(***************************************************************************)
B64Alphabet == "ABCDEFGHIJKLMNOPQRSTUVWXYZabcdefghijklmnopqrstuvwxyz0123456789+/"
B64Char(n) == CharAt(B64Alphabet, n + 1)
IsB64Char(c) == \E n \in 0..63 : B64Char(n) = c
B64Index(c) == CHOOSE n \in 0..63 : B64Char(n) = c

RECURSIVE Btoa(_)
\* btoa(String.fromCharCode(...bytes)) for a sequence of bytes 0..255
Btoa(bytes) ==
  IF Len(bytes) = 0 THEN ""
  ELSE LET n == Len(bytes)
           b1 == bytes[1]
           b2 == IF n >= 2 THEN bytes[2] ELSE 0
           b3 == IF n >= 3 THEN bytes[3] ELSE 0
       IN B64Char(b1 \div 4)
            \o B64Char((b1 % 4) * 16 + b2 \div 16)
            \o (IF n >= 2 THEN B64Char((b2 % 16) * 4 + b3 \div 64) ELSE "=")
            \o (IF n >= 3 THEN B64Char(b3 % 64) ELSE "=")
            \o (IF n > 3 THEN Btoa(SubSeq(bytes, 4, n)) ELSE "")

RECURSIVE StripSpaces(_)
StripSpaces(s) ==
  IF s = "" THEN ""
  ELSE IF CharAt(s, 1) = " " THEN StripSpaces(Tail(s))
  ELSE CharAt(s, 1) \o StripSpaces(Tail(s))

\* The padding atob removes: one or two trailing "=" of a text whose length
\* is a multiple of four.
StripPadding(s) ==
  IF Len(s) % 4 = 0 /\ Len(s) >= 2 /\ SubSeq(s, Len(s) - 1, Len(s)) = "=="
  THEN SubSeq(s, 1, Len(s) - 2)
  ELSE IF Len(s) % 4 = 0 /\ Len(s) >= 1 /\ CharAt(s, Len(s)) = "="
  THEN SubSeq(s, 1, Len(s) - 1)
  ELSE s

RECURSIVE B64Groups(_)
\* The bytes of a padding-free base64 text of length other than 1 mod 4.
B64Groups(s) ==
  IF Len(s) = 0 THEN <<>>
  ELSE LET n == Len(s)
           c1 == B64Index(CharAt(s, 1))
           c2 == B64Index(CharAt(s, 2))
           c3 == IF n >= 3 THEN B64Index(CharAt(s, 3)) ELSE 0
           c4 == IF n >= 4 THEN B64Index(CharAt(s, 4)) ELSE 0
       IN <<c1 * 4 + c2 \div 16>>
            \o (IF n >= 3 THEN <<(c2 % 16) * 16 + c3 \div 4>> ELSE <<>>)
            \o (IF n >= 4 THEN <<(c3 % 4) * 64 + c4>> ELSE <<>>)
            \o (IF n > 4 THEN B64Groups(SubSeq(s, 5, n)) ELSE <<>>)

\* atob(text): the decoded bytes (the char codes of the binary string), or
\* an InvalidCharacterError.
Atob(text) ==
  LET s == StripPadding(StripSpaces(text))
  IN IF Len(s) % 4 = 1 \/ \E i \in 1..Len(s) : ~IsB64Char(CharAt(s, i))
     THEN Throw("InvalidCharacterError")
     ELSE Bytes(B64Groups(s))

(***************************************************************************)
(* JSON.stringify: the JSON text of a value.  undefined and functions are  *)
(* left out of objects and written as null in arrays, NaN is written as    *)
(* null, a typed array is written as an object of its indices, and an      *)
(* array's extra properties (__isTuple__) are not written.                 *)
(***************************************************************************)
RECURSIVE JSONEscape(_)
JSONEscape(s) ==
  IF s = "" THEN ""
  ELSE LET c == CharAt(s, 1)
       IN (IF c = "\"" THEN "\\\"" ELSE IF c = "\\" THEN "\\\\" ELSE c)
            \o JSONEscape(Tail(s))

JSONQuote(s) == "\"" \o JSONEscape(s) \o "\""

\* Values JSON.stringify leaves out.
JSONOmitted(v) == v.k \in {"undefined", "function"}

RECURSIVE JSONText(_)
JSONText(v) ==
  CASE v.k \in {"null", "nan"} -> "null"
    [] v.k = "boolean" -> IF v.b THEN "true" ELSE "false"
    [] v.k = "number" -> ToString(v.n)
    [] v.k = "string" -> JSONQuote(v.s)
    [] v.k = "array" ->
         "[" \o Join([i \in 1..Len(v.items) |->
                        IF JSONOmitted(v.items[i]) THEN "null"
                        ELSE JSONText(v.items[i])], ",") \o "]"
    [] OTHER ->
         LET props == SelectSeq(IF v.k = "object" THEN v.props ELSE OwnProps(v),
                                LAMBDA p : ~JSONOmitted(p.val))
         IN "{" \o Join([i \in 1..Len(props) |->
                           JSONQuote(props[i].key) \o ":" \o JSONText(props[i].val)],
                        ",") \o "}"

\* The structure JSON.stringify walks closes a cycle.
RECURSIVE HasCycle(_)
HasCycle(v) ==
  CASE v.k = "cycle" -> TRUE
    [] v.k = "array" -> \E i \in 1..Len(v.items) : HasCycle(v.items[i])
    [] v.k = "object" -> \E i \in 1..Len(v.props) : HasCycle(v.props[i].val)
    [] OTHER -> FALSE

\* JSON.stringify(value); a circular structure makes it throw.
JSONStringify(v) ==
  IF JSONOmitted(v) THEN Undefined
  ELSE IF HasCycle(v) THEN Throw("TypeError")
  ELSE Str(JSONText(v))

(***************************************************************************)
(* JSON.parse: a recursive-descent parser of JSON text.  Numbers are the   *)
(* integers; the escapes read are \" \\ and \/.  A result is               *)
(* [ok, val, next]: the value read and the position after it.              *)
(***************************************************************************)
ParseFail == [ok |-> FALSE]
ParseOk(val, next) == [ok |-> TRUE, val |-> val, next |-> next]
Digits == "0123456789"
IsDigit(c) == \E d \in 1..10 : CharAt(Digits, d) = c
DigitValue(c) == (CHOOSE d \in 1..10 : CharAt(Digits, d) = c) - 1

RECURSIVE SkipWs(_, _)
SkipWs(s, i) == IF i <= Len(s) /\ CharAt(s, i) = " " THEN SkipWs(s, i + 1) ELSE i

RECURSIVE ScanString(_, _, _)
\* The string whose opening quote has been read; j is the next character.
ScanString(s, j, acc) ==
  IF j > Len(s) THEN ParseFail
  ELSE LET c == CharAt(s, j)
       IN IF c = "\"" THEN ParseOk(acc, j + 1)
          ELSE IF c = "\\"
          THEN IF j + 1 <= Len(s) /\ CharAt(s, j + 1) \in {"\"", "\\", "/"}
               THEN ScanString(s, j + 2, acc \o CharAt(s, j + 1))
               ELSE ParseFail
          ELSE ScanString(s, j + 1, acc \o c)

RECURSIVE ScanDigits(_, _, _)
ScanDigits(s, j, acc) ==
  IF j <= Len(s) /\ IsDigit(CharAt(s, j))
  THEN ScanDigits(s, j + 1, acc * 10 + DigitValue(CharAt(s, j)))
  ELSE ParseOk(acc, j)

ParseNumber(s, i) ==
  LET neg == CharAt(s, i) = "-"
      j == IF neg THEN i + 1 ELSE i
  IN IF j > Len(s) \/ ~IsDigit(CharAt(s, j)) THEN ParseFail
     ELSE IF CharAt(s, j) = "0" THEN ParseOk(Num(0), j + 1)
     ELSE LET r == ScanDigits(s, j, 0)
          IN ParseOk(Num(IF neg THEN 0 - r.val ELSE r.val), r.next)

RECURSIVE ParseValue(_, _)
RECURSIVE ParseElements(_, _, _)
RECURSIVE ParseMembers(_, _, _)

\* The elements of an array after "[" or ","; i is at the next element.
ParseElements(s, i, acc) ==
  LET r == ParseValue(s, SkipWs(s, i))
  IN IF ~r.ok THEN ParseFail
     ELSE LET j == SkipWs(s, r.next)
              c == IF j <= Len(s) THEN CharAt(s, j) ELSE ""
          IN IF c = "," THEN ParseElements(s, j + 1, Append(acc, r.val))
             ELSE IF c = "]" THEN ParseOk(List(Append(acc, r.val), FALSE), j + 1)
             ELSE ParseFail

\* The members of an object after "{" or ","; i is at the next key.
ParseMembers(s, i, acc) ==
  LET ki == SkipWs(s, i)
  IN IF ki > Len(s) \/ CharAt(s, ki) # "\"" THEN ParseFail
     ELSE LET key == ScanString(s, ki + 1, "")
          IN IF ~key.ok THEN ParseFail
             ELSE LET ci == SkipWs(s, key.next)
                  IN IF ci > Len(s) \/ CharAt(s, ci) # ":" THEN ParseFail
                     ELSE LET r == ParseValue(s, SkipWs(s, ci + 1))
                          IN IF ~r.ok THEN ParseFail
                             ELSE LET j == SkipWs(s, r.next)
                                      c == IF j <= Len(s) THEN CharAt(s, j) ELSE ""
                                      props == SetProp(acc, key.val, r.val)
                                  IN IF c = "," THEN ParseMembers(s, j + 1, props)
                                     ELSE IF c = "}"
                                     THEN ParseOk(Obj("Object", props), j + 1)
                                     ELSE ParseFail

ParseValue(s, i) ==
  IF i > Len(s) THEN ParseFail
  ELSE LET c == CharAt(s, i)
       IN CASE c = "{" ->
                 LET j == SkipWs(s, i + 1)
                 IN IF j <= Len(s) /\ CharAt(s, j) = "}"
                    THEN ParseOk(Obj("Object", <<>>), j + 1)
                    ELSE ParseMembers(s, i + 1, <<>>)
            [] c = "[" ->
                 LET j == SkipWs(s, i + 1)
                 IN IF j <= Len(s) /\ CharAt(s, j) = "]"
                    THEN ParseOk(List(<<>>, FALSE), j + 1)
                    ELSE ParseElements(s, i + 1, <<>>)
            [] c = "\"" ->
                 LET r == ScanString(s, i + 1, "")
                 IN IF r.ok THEN ParseOk(Str(r.val), r.next) ELSE ParseFail
            [] c = "-" \/ IsDigit(c) -> ParseNumber(s, i)
            [] Slice(s, i, i + 3) = "true" -> ParseOk(Bool(TRUE), i + 4)
            [] Slice(s, i, i + 4) = "false" -> ParseOk(Bool(FALSE), i + 5)
            [] Slice(s, i, i + 3) = "null" -> ParseOk(Null, i + 4)
            [] OTHER -> ParseFail

\* JSON.parse(text): the value, or a SyntaxError.
JSONParse(text) ==
  LET r == ParseValue(text, SkipWs(text, 1))
  IN IF r.ok /\ SkipWs(text, r.next) = Len(text) + 1 THEN r.val
     ELSE Throw("SyntaxError")

(***************************************************************************)
(* JSONFrameSerializer: encoding.                                          *)
(***************************************************************************)
\* The well-known frame fields, in the order the code handles them.
BaseFrameFields ==
  <<"id", "name", "pts", "metadata", "transport_source", "transport_destination">>

IsBaseFrameField(key) == \E i \in 1..Len(BaseFrameFields) : BaseFrameFields[i] = key

\* frame.constructor.name: a TypeError when the frame, or its constructor,
\* is null or undefined.
ConstructorName(frame) ==
  IF frame.k \in {"undefined", "null"} THEN Throw("TypeError")
  ELSE LET c == Get(frame, "constructor")
       IN IF c.k \in {"undefined", "null"} THEN Throw("TypeError")
          ELSE Get(c, "name")

\* The first exception among the results, if any.
FirstThrow(rs) == rs[CHOOSE i \in 1..Len(rs) : IsThrow(rs[i]) /\ \A j \in 1..(i - 1) : ~IsThrow(rs[j])]
AnyThrow(rs) == \E i \in 1..Len(rs) : IsThrow(rs[i])

RECURSIVE _frameToDict(_)
RECURSIVE _serializeValue(_)
RECURSIVE FrameFieldsLoop(_, _, _)
RECURSIVE BaseFieldsLoop(_, _, _)

\* The `if (hasOwnProperty(frame, f)) frameDict[f] = frame[f]` statements of
\* the base Frame fields, from the i-th on.
BaseFieldsLoop(frame, i, frameDict) ==
  IF i > Len(BaseFrameFields) THEN frameDict
  ELSE LET f == BaseFrameFields[i]
       IN BaseFieldsLoop(frame, i + 1,
            IF HasOwn(frame, f) THEN SetProp(frameDict, f, Get(frame, f)) ELSE frameDict)

\* SkipsField with `key in frame` written for `key in frameDict`.
SkipsFieldInFrame(frame, key, frameDict) ==
  In(key, frame) \/ StartsWith(key, "___") \/ StartsWith(key, "__")

\* SkipsField without the tests of the key's prefix.
SkipsFieldWrittenOnly(frame, key, frameDict) ==
  In(key, Obj("Object", frameDict))

\* The test that makes the loop skip a key: already written to frameDict
\* (`in` sees what frameDict inherits as well), or prefixed like a marker.
SkipsField(frame, key, frameDict) ==
  In(key, Obj("Object", frameDict)) \/ StartsWith(key, "___") \/ StartsWith(key, "__")

\* WithMarkers without the tuple marker.
WithBytesMarkerOnly(frameDict, key, value) ==
  IF value.k = "Uint8Array"
  THEN SetProp(frameDict, "__" \o key \o "_is_bytes__", Bool(TRUE))
  ELSE frameDict

\* WithMarkers writing the tuple marker for every array, flagged or not.
WithMarkersOfEveryArray(frameDict, key, value) ==
  LET d1 == IF value.k = "Uint8Array"
            THEN SetProp(frameDict, "__" \o key \o "_is_bytes__", Bool(TRUE))
            ELSE frameDict
  IN IF value.k = "array"
     THEN SetProp(d1, "__" \o key \o "_is_tuple__", Bool(TRUE))
     ELSE d1

\* The sibling marker keys written before a field's value.
WithMarkers(frameDict, key, value) ==
  LET d1 == IF value.k = "Uint8Array"
            THEN SetProp(frameDict, "__" \o key \o "_is_bytes__", Bool(TRUE))
            ELSE frameDict
  IN IF value.k = "array" /\ value.isTuple
     THEN SetProp(d1, "__" \o key \o "_is_tuple__", Bool(TRUE))
     ELSE d1

\* The `for (const key in frame)` loop from the i-th own property on.
FrameFieldsLoop(frame, i, frameDict) ==
  IF i > Len(OwnProps(frame)) THEN Obj("Object", frameDict)
  ELSE LET key == OwnProps(frame)[i].key
           value == OwnProps(frame)[i].val
       IN IF SkipsField(frame, key, frameDict)
          THEN FrameFieldsLoop(frame, i + 1, frameDict)
          ELSE LET sv == _serializeValue(value)
               IN IF IsThrow(sv) THEN sv
                  ELSE FrameFieldsLoop(frame, i + 1,
                         SetProp(WithMarkers(frameDict, key, value), key, sv))

_frameToDict(frame) ==
  LET tag == ConstructorName(frame)
  IN IF IsThrow(tag) THEN tag
     ELSE FrameFieldsLoop(frame, 1,
            BaseFieldsLoop(frame, 1, <<Prop("___frame___", tag)>>))

\* _serializeValue whose last branch returns the value as it is.
_serializeValueUncoerced(value) ==
  IF value.k = "null" THEN Null
  ELSE IF TypeOf(value) \in {"string", "number", "boolean"} THEN value
  ELSE IF value.k = "Uint8Array" THEN Str(Btoa(value.bytes))
  ELSE IF value.k = "cycle" THEN Throw("RangeError")
  ELSE IF value.k = "array"
  THEN LET rs == [i \in 1..Len(value.items) |-> _serializeValue(value.items[i])]
       IN IF AnyThrow(rs) THEN FirstThrow(rs) ELSE List(rs, FALSE)
  ELSE IF TypeOf(value) = "object"
  THEN IF In("___frame___", value) THEN _frameToDict(value)
       ELSE LET ps == OwnProps(value)
                rs == [i \in 1..Len(ps) |-> _serializeValue(ps[i].val)]
            IN IF AnyThrow(rs) THEN FirstThrow(rs)
               ELSE Obj("Object", [i \in 1..Len(ps) |-> Prop(ps[i].key, rs[i])])
  ELSE value

_serializeValue(value) ==
  IF value.k = "null" THEN Null
  ELSE IF TypeOf(value) \in {"string", "number", "boolean"} THEN value
  ELSE IF value.k = "Uint8Array" THEN Str(Btoa(value.bytes))
  ELSE IF value.k = "cycle" THEN Throw("RangeError")
  ELSE IF value.k = "array"
  THEN LET rs == [i \in 1..Len(value.items) |-> _serializeValue(value.items[i])]
       IN IF AnyThrow(rs) THEN FirstThrow(rs) ELSE List(rs, FALSE)
  ELSE IF TypeOf(value) = "object"
  THEN IF In("___frame___", value) THEN _frameToDict(value)
       ELSE LET ps == OwnProps(value)
                rs == [i \in 1..Len(ps) |-> _serializeValue(ps[i].val)]
            IN IF AnyThrow(rs) THEN FirstThrow(rs)
               ELSE Obj("Object", [i \in 1..Len(ps) |-> Prop(ps[i].key, rs[i])])
  ELSE Str(ToStr(value))

\* serialize without its try and catch.
serializeUncaught(frame) ==
  IF frame.k = "null" THEN Null
  ELSE LET frameData == _frameToDict(frame)
       IN IF IsThrow(frameData) THEN frameData ELSE JSONStringify(frameData)

\* serialize(frame): the value returned, or the exception that leaves it.
\* The recursion of _serializeValue over a cycle ends with the RangeError
\* of the exhausted call stack, JSON.stringify of a cycle with a TypeError;
\* both are thrown inside the try.
serialize(frame) ==
  IF frame.k = "null" THEN Null
  ELSE LET frameData == _frameToDict(frame)
           tried == IF IsThrow(frameData) THEN frameData ELSE JSONStringify(frameData)
       IN IF ~IsThrow(tried) THEN tried
          ELSE LET logged == ConstructorName(frame)
               IN IF IsThrow(logged) THEN logged ELSE Null

\* serializeAudio(data, sample_rate, num_channels), data the bytes of the
\* ArrayBuffer.
serializeAudio(data, sample_rate, num_channels) ==
  JSONStringify(Obj("Object",
    <<Prop("___type___", Str("audio")), Prop("audio", Str(Btoa(data))),
      Prop("sample_rate", sample_rate), Prop("num_channels", num_channels)>>))

\* serializeMessage embedding String(msg) for msg.
serializeMessageAsText(msg) ==
  JSONStringify(Obj("Object",
    <<Prop("___type___", Str("message")), Prop("message", Str(ToStr(msg)))>>))

serializeMessage(msg) ==
  JSONStringify(Obj("Object",
    <<Prop("___type___", Str("message")), Prop("message", msg)>>))

(***************************************************************************)
(* JSONFrameSerializer: decoding.                                          *)
(***************************************************************************)
\* _deserializeAudio without the loop that copies the char codes: the
\* Int16Array lies over a zero-filled buffer.
_deserializeAudioZeroed(frameDict) ==
  LET decoded == Atob(ToStr(Get(frameDict, "audio")))
  IN IF IsThrow(decoded) THEN decoded
     ELSE IF Len(decoded.bytes) % 2 # 0 THEN Throw("RangeError")
     ELSE Obj("Object",
            <<Prop("audio", Int16([i \in 1..Len(decoded.bytes) |-> 0])),
              Prop("sampleRate", Get(frameDict, "sampleRate")),
              Prop("numChannels", Get(frameDict, "numChannels"))>>)

\* _deserializeAudio(frameDict): atob of the audio text, then an Int16Array
\* over the bytes, which is a RangeError for an odd number of bytes.
_deserializeAudio(frameDict) ==
  LET decoded == Atob(ToStr(Get(frameDict, "audio")))
  IN IF IsThrow(decoded) THEN decoded
     ELSE IF Len(decoded.bytes) % 2 # 0 THEN Throw("RangeError")
     ELSE Obj("Object",
            <<Prop("audio", Int16(decoded.bytes)),
              Prop("sampleRate", Get(frameDict, "sampleRate")),
              Prop("numChannels", Get(frameDict, "numChannels"))>>)

\* IsSpecialKey skipping the frame-type key only.
IsSpecialKeyFrameOnly(key) == key = "___frame___"

\* The special fields and markers the reconstruction skips.
IsSpecialKey(key) ==
  key = "___frame___" \/ StartsWith(key, "___") \/ StartsWith(key, "__")

RECURSIVE _dictToFrame(_)
RECURSIVE _deserializeValue(_, _, _)
RECURSIVE ConstructorArgsLoop(_, _, _)
RECURSIVE NonInitFieldsLoop(_, _, _)

\* ConstructorArgsLoop passing the two markers to _deserializeValue in the
\* wrong order.
ConstructorArgsLoopSwapped(frameDict, i, constructorArgs) ==
  IF i > Len(OwnProps(frameDict)) THEN Obj("Object", constructorArgs)
  ELSE LET key == OwnProps(frameDict)[i].key
           value == OwnProps(frameDict)[i].val
       IN IF IsSpecialKey(key)
          THEN ConstructorArgsLoop(frameDict, i + 1, constructorArgs)
          ELSE IF IsBaseFrameField(key)
          THEN ConstructorArgsLoop(frameDict, i + 1, constructorArgs)
          ELSE LET isBytesMarker == Truthy(Get(frameDict, "__" \o key \o "_is_bytes__"))
                   isTupleMarker == Truthy(Get(frameDict, "__" \o key \o "_is_tuple__"))
                   dv == _deserializeValue(value, isTupleMarker, isBytesMarker)
               IN IF IsThrow(dv) THEN dv
                  ELSE ConstructorArgsLoop(frameDict, i + 1,
                         SetProp(constructorArgs, key, dv))

\* The `for (const key in frameDict)` loop from the i-th own property on:
\* the constructor arguments, or the exception a field raised.
ConstructorArgsLoop(frameDict, i, constructorArgs) ==
  IF i > Len(OwnProps(frameDict)) THEN Obj("Object", constructorArgs)
  ELSE LET key == OwnProps(frameDict)[i].key
           value == OwnProps(frameDict)[i].val
       IN IF IsSpecialKey(key)
          THEN ConstructorArgsLoop(frameDict, i + 1, constructorArgs)
          ELSE IF IsBaseFrameField(key)
          THEN ConstructorArgsLoop(frameDict, i + 1, constructorArgs)
          ELSE LET isBytesMarker == Truthy(Get(frameDict, "__" \o key \o "_is_bytes__"))
                   isTupleMarker == Truthy(Get(frameDict, "__" \o key \o "_is_tuple__"))
                   dv == _deserializeValue(value, isBytesMarker, isTupleMarker)
               IN IF IsThrow(dv) THEN dv
                  ELSE ConstructorArgsLoop(frameDict, i + 1,
                         SetProp(constructorArgs, key, dv))

\* NonInitFieldsLoop with the metadata statement reading the key of the
\* statement before it.
NonInitFieldsLoopWrongKey(frameDict, i, frame) ==
  IF i > Len(BaseFrameFields) THEN frame
  ELSE LET f == BaseFrameFields[i]
           from == IF f = "metadata" THEN "pts" ELSE f
       IN NonInitFieldsLoop(frameDict, i + 1,
            IF In(f, frameDict) THEN SetProp(frame, f, Get(frameDict, from)) ELSE frame)

\* The `if (f in frameDict) frame[f] = frameDict[f]` statements of the base
\* Frame fields, from the i-th on.
NonInitFieldsLoop(frameDict, i, frame) ==
  IF i > Len(BaseFrameFields) THEN frame
  ELSE LET f == BaseFrameFields[i]
       IN NonInitFieldsLoop(frameDict, i + 1,
            IF In(f, frameDict) THEN SetProp(frame, f, Get(frameDict, f)) ELSE frame)

\* _dictToFrame returning null for a type tag it does not know.
_dictToFrameOfKnownTag(frameDict) ==
  LET frameTypeName == Get(frameDict, "___frame___")
  IN IF ~Truthy(frameTypeName) \/ frameTypeName \notin {Str("TranscriptFrame"), Str("Inner")}
     THEN Null
     ELSE LET constructorArgs == ConstructorArgsLoop(frameDict, 1, <<>>)
          IN IF IsThrow(constructorArgs) THEN Null
             ELSE Obj("Object",
                    NonInitFieldsLoop(frameDict, 1,
                      SetProp(constructorArgs.props, "constructor",
                              Obj("Object", <<Prop("name", frameTypeName)>>))))

_dictToFrame(frameDict) ==
  LET frameTypeName == Get(frameDict, "___frame___")
  IN IF ~Truthy(frameTypeName) THEN Null
     ELSE LET constructorArgs == ConstructorArgsLoop(frameDict, 1, <<>>)
          IN IF IsThrow(constructorArgs) THEN Null
             ELSE Obj("Object",
                    NonInitFieldsLoop(frameDict, 1,
                      SetProp(constructorArgs.props, "constructor",
                              Obj("Object", <<Prop("name", frameTypeName)>>))))

\* One item of the array loop of _deserializeValue.
DeserializeItem(item) ==
  IF TypeOf(item) = "object" /\ item.k # "null" /\ In("___frame___", item)
  THEN _dictToFrame(item)
  ELSE _deserializeValue(item, FALSE, FALSE)

\* _deserializeValue that never sets __isTuple__ on the list it returns.
_deserializeValueUnflagged(value, isBytes, isTuple) ==
  IF value.k = "null" THEN Null
  ELSE IF TypeOf(value) = "string" /\ isBytes THEN Atob(value.s)
  ELSE IF TypeOf(value) \in {"string", "number", "boolean"} THEN value
  ELSE IF value.k = "array"
  THEN LET rs == [i \in 1..Len(value.items) |-> DeserializeItem(value.items[i])]
       IN IF AnyThrow(rs) THEN FirstThrow(rs) ELSE List(rs, FALSE)
  ELSE IF TypeOf(value) = "object"
  THEN IF In("___frame___", value) THEN _dictToFrame(value)
       ELSE LET ps == OwnProps(value)
                rs == [i \in 1..Len(ps) |-> _deserializeValue(ps[i].val, FALSE, FALSE)]
            IN IF AnyThrow(rs) THEN FirstThrow(rs)
               ELSE Obj("Object", [i \in 1..Len(ps) |-> Prop(ps[i].key, rs[i])])
  ELSE value

_deserializeValue(value, isBytes, isTuple) ==
  IF value.k = "null" THEN Null
  ELSE IF TypeOf(value) = "string" /\ isBytes THEN Atob(value.s)
  ELSE IF TypeOf(value) \in {"string", "number", "boolean"} THEN value
  ELSE IF value.k = "array"
  THEN LET rs == [i \in 1..Len(value.items) |-> DeserializeItem(value.items[i])]
       IN IF AnyThrow(rs) THEN FirstThrow(rs) ELSE List(rs, isTuple)
  ELSE IF TypeOf(value) = "object"
  THEN IF In("___frame___", value) THEN _dictToFrame(value)
       ELSE LET ps == OwnProps(value)
                rs == [i \in 1..Len(ps) |-> _deserializeValue(ps[i].val, FALSE, FALSE)]
            IN IF AnyThrow(rs) THEN FirstThrow(rs)
               ELSE Obj("Object", [i \in 1..Len(ps) |-> Prop(ps[i].key, rs[i])])
  ELSE value

\* The result objects deserialize resolves with.
AudioResult(audio) == Obj("Object", <<Prop("type", Str("audio")), Prop("audio", audio)>>)
MessageResult(message) ==
  Obj("Object", <<Prop("type", Str("message")), Prop("message", message)>>)
RawResult(message) == Obj("Object", <<Prop("type", Str("raw")), Prop("message", message)>>)

\* DeserializeTry taking the generic-frame path for every payload that
\* carries the ___frame___ key, before it looks at ___type___.
DeserializeTryFrameFirst(data) ==
  LET frameDict == IF TypeOf(data) = "string" THEN JSONParse(data.s) ELSE data
  IN IF IsThrow(frameDict) THEN frameDict
     ELSE IF frameDict.k \in {"undefined", "null"} THEN Throw("TypeError")
     ELSE LET frameType == Get(frameDict, "___type___")
          IN IF HasOwn(frameDict, "___frame___")
             THEN RawResult(_dictToFrame(frameDict))
             ELSE IF frameType.k = "string" /\ frameType.s = "audio"
             THEN LET deserialized == _deserializeAudio(frameDict)
                  IN IF IsThrow(deserialized) THEN deserialized
                     ELSE AudioResult(Get(deserialized, "audio"))
             ELSE IF frameType.k = "string" /\ frameType.s = "message"
             THEN MessageResult(Get(frameDict, "message"))
             ELSE RawResult(_dictToFrame(frameDict))

\* The try block of deserialize: the value it passes to resolve, or the
\* exception it raises (always before it reaches a resolve call).
DeserializeTry(data) ==
  LET frameDict == IF TypeOf(data) = "string" THEN JSONParse(data.s) ELSE data
  IN IF IsThrow(frameDict) THEN frameDict
     ELSE IF frameDict.k \in {"undefined", "null"} THEN Throw("TypeError")
     ELSE LET frameType == Get(frameDict, "___type___")
          IN IF frameType.k = "string" /\ frameType.s = "audio"
             THEN LET deserialized == _deserializeAudio(frameDict)
                  IN IF IsThrow(deserialized) THEN deserialized
                     ELSE AudioResult(Get(deserialized, "audio"))
             ELSE IF frameType.k = "string" /\ frameType.s = "message"
             THEN MessageResult(Get(frameDict, "message"))
             ELSE RawResult(_dictToFrame(frameDict))

\* A catch block that logs and resolves nothing.
DeserializeCatchLogsOnly(e) == <<>>

\* The catch block of deserialize: the values it passes to resolve.
DeserializeCatch(e) == <<RawResult(Null)>>

\* deserialize with the raw/null resolve placed after the try statement
\* instead of inside its catch block.
deserializeResolvesAfterTry(data) ==
  LET r == DeserializeTry(data)
  IN [resolved |-> (IF IsThrow(r) THEN <<>> ELSE <<r>>) \o <<RawResult(Null)>>,
      threw |-> FALSE]

\* deserialize(data): the promise returned, as the sequence of values its
\* executor passed to resolve and whether the executor itself threw.
deserialize(data) ==
  LET r == DeserializeTry(data)
  IN [resolved |-> IF IsThrow(r) THEN DeserializeCatch(r) ELSE <<r>>, threw |-> FALSE]

\* The state of a promise: fulfilled with the first value resolved, rejected
\* when its executor threw before resolving, pending otherwise.
PromiseState(p) ==
  IF Len(p.resolved) > 0 THEN "fulfilled" ELSE IF p.threw THEN "rejected" ELSE "pending"
PromiseValue(p) == p.resolved[1]

(***************************************************************************)
(* The codec in use.  The application prepares one call (it builds a frame *)
(* field by field, or fills an audio buffer), makes the call, the          *)
(* transport delivers the payload and the receiving side decodes it; or a  *)
(* payload arrives from elsewhere and is decoded.                          *)
(***************************************************************************)
VARIABLES
  pending,    \* the call being prepared: its operation and its arguments
  sent,       \* the encode call made: what it returned or threw
  received,   \* the decode call made: its argument and the promise returned
  forwarded   \* the encode call made on the decoded frame: what it returned

codecVars == <<pending, sent, received, forwarded>>

(***************************************************************************)
(* The TransportProvider component.  Its state values are those of the     *)
(* last render; a set-state call puts an update on the component's queue,  *)
(* the next render applies the queue, and the effects whose dependencies   *)
(* changed run after the render, before the one that follows.              *)
(***************************************************************************)
VARIABLES
  mounted,                       \* the provider is mounted
  transcripts,                   \* useState: the messages shown
  receivedFinalUserMessage,      \* useState
  botStoppedSpeaking,            \* useState
  previousAiAssistRunning,       \* useState
  connectionStatus,              \* useState
  sceneStatus,                   \* what useGlassesConnection returned to the last render
  receivedFinalUserMessageRef,   \* useRef
  botStoppedSpeakingRef,         \* useRef
  clientRef,                     \* useRef: the number of the client held, 0 for null
  queue,                         \* the updates waiting for the next render, in call order
  effects,                       \* the effects of the last render that have not run yet
  clients,                       \* the PipecatClient objects created, by number
  heard,                         \* the transcript and bot events the callbacks were called
                                 \* with, and whether they came when all was rendered
  emitted,                       \* the aiAssistRunning values the glasses reported
  shown,                         \* the aiAssistRunning values the renders saw
  connectCalls,                  \* how many times the scene status effect invoked connect
  initializing                   \* the calls of initializeClient still awaiting their configuration

stateVars ==
  <<transcripts, receivedFinalUserMessage, botStoppedSpeaking, previousAiAssistRunning,
    connectionStatus, sceneStatus>>
refVars == <<receivedFinalUserMessageRef, botStoppedSpeakingRef, clientRef>>
providerVars ==
  <<mounted, stateVars, refVars, queue, effects, clients, heard, emitted, shown, connectCalls,
    initializing>>

vars == <<codecVars, providerVars>>

\* Bounds of the model.
MaxFields == 2
MaxBytes == 3

None == [k |-> "none"]

\* Class names of frames: a named class, and an anonymous class (name "").
TypeTags == {"TranscriptFrame", ""}

\* Field names, in the order the application sets them: an ordinary field, a
\* base Frame field, two names shaped like markers, and a name that every
\* object inherits.
FieldNames == <<"text", "metadata", "__text_is_bytes__", "__text_is_tuple__", "constructor">>

Blob == Bytes(<<1, 2>>)
InnerFrame ==
  Obj("Inner", <<Prop("___frame___", Str("Inner")), Prop("data", Bytes(<<3>>))>>)

\* A plain object carrying the frame-type key, as an application holds a
\* frame it received as parsed data.
InnerRecord ==
  Obj("Object", <<Prop("___frame___", Str("Inner")), Prop("data", Bytes(<<3>>))>>)
\* A plain map holding a blob and a tuple.
BlobMap == Obj("Object", <<Prop("img", Blob), Prop("pair", List(<<Num(1)>>, TRUE))>>)
Callback == Func("() => 1")

\* Field values: the value types of a frame, undefined and a function.
FieldValues ==
  {Null, Num(7), Str("AQI="), Blob,
   List(<<Bool(TRUE), Str("a")>>, FALSE), List(<<Num(1), Num(2)>>, TRUE),
   List(<<Blob>>, FALSE), InnerFrame, Undefined,
   InnerRecord, BlobMap, Callback}

\* Arguments of serialize that are no frame objects.
NonFrameInputs == {Null, Undefined, Num(5)}

AudioBytes == {0, 127, 255}
SampleRates == {Num(16000), Num(24000)}
ChannelCounts == {Num(1), Num(2)}

\* RTVI messages: nested JSON-compatible data.
RTVIMessages ==
  {Obj("Object", <<Prop("id", Str("1")), Prop("label", Str("rtvi-ai")),
                   Prop("type", Str("client-ready")),
                   Prop("data", Obj("Object", <<Prop("list", List(<<Num(1), Null, Bool(FALSE)>>, FALSE)),
                                                Prop("___type___", Str("audio"))>>))>>),
   Obj("Object", <<>>), List(<<Str("a\"b"), List(<<>>, FALSE)>>, FALSE), Str("text"), Num(-3), Null}

\* A frame envelope holding field f as base64 text next to its bytes marker.
MarkerEnvelope(f, bytes) ==
  Obj("Object", <<Prop("___frame___", Str("TranscriptFrame")),
                  Prop("__" \o f \o "_is_bytes__", Bool(TRUE)),
                  Prop(f, Str(Btoa(bytes)))>>)
EnvelopeBlobs == {<<1, 2>>, <<255>>}
EnvelopeFields == {FieldNames[i] : i \in 1..Len(FieldNames)} \cup {"foo", "audio", "toString"}
MarkerEnvelopes == {MarkerEnvelope(f, b) : f \in EnvelopeFields, b \in EnvelopeBlobs}

\* Envelopes by discriminator: ___type___ t (None: no such key) next to a
\* ___frame___ key holding tag (None: no such key), an audio text, a message
\* and an ordinary field.
TypedEnvelope(t, tag, audio) ==
  Obj("Object",
      (IF t = None THEN <<>> ELSE <<Prop("___type___", t)>>)
        \o (IF tag = None THEN <<>> ELSE <<Prop("___frame___", tag)>>)
        \o <<Prop("audio", audio),
             Prop("message", Obj("Object", <<Prop("id", Str("1"))>>)),
             Prop("text", Str("hi"))>>)
Discriminators == {Str("audio"), Str("message"), Str("video"), Num(1), None}
EnvelopeTags == {Str("TranscriptFrame"), Str("NoSuchFrame"), Str(""), None}
AudioTexts == {Str("AQI="), Str("/w=="), Str("A")}
TypedEnvelopes ==
  {TypedEnvelope(t, tag, a) : t \in Discriminators, tag \in EnvelopeTags, a \in AudioTexts}

\* A frame envelope holding field f with value v next to a bytes marker
\* holding m (None: no marker).
MarkedEnvelope(f, m, v) ==
  Obj("Object",
      <<Prop("___frame___", Str("TranscriptFrame"))>>
        \o (IF m = None THEN <<>> ELSE <<Prop("__" \o f \o "_is_bytes__", m)>>)
        \o <<Prop(f, v)>>)
MarkerValues == {Bool(TRUE), Bool(FALSE), Num(1), Num(0), Str("false"), Null, None}
MarkedValues == {Str("AQI="), Num(7), List(<<Str("AQI=")>>, FALSE)}
MarkedEnvelopes == {MarkedEnvelope("foo", m, v) : m \in MarkerValues, v \in MarkedValues}

\* Envelopes with a bytes-marked field that is no base64 text: at the top
\* level, in a nested frame, and in a nested frame inside a list.
BadBlobEnvelope(tag) ==
  Obj("Object", <<Prop("___frame___", Str(tag)),
                  Prop("__data_is_bytes__", Bool(TRUE)), Prop("data", Str("A"))>>)
FailingEnvelopes ==
  {BadBlobEnvelope("TranscriptFrame"),
   Obj("Object", <<Prop("___frame___", Str("Outer")), Prop("text", Str("hi")),
                   Prop("inner", BadBlobEnvelope("Inner"))>>),
   Obj("Object", <<Prop("___frame___", Str("Outer")),
                   Prop("items", List(<<BadBlobEnvelope("Inner")>>, FALSE))>>)}

StructuredPayloads ==
  MarkerEnvelopes \cup TypedEnvelopes \cup MarkedEnvelopes \cup FailingEnvelopes

MalformedTexts == {"{not valid json", "", "{\"a\":1,}", "[1 2]", "nul"}

\* Payloads that reach deserialize from elsewhere: texts that do not parse,
\* values that are no payload, parsed structures and their texts.
ForeignPayloads ==
  {Str(t) : t \in MalformedTexts} \cup {Undefined, Null, Num(5), Str("5"), Str("null")}
    \cup StructuredPayloads \cup {JSONStringify(e) : e \in StructuredPayloads}

\* The provider's variables before any event: the values useState and
\* useRef are given, no client yet, the mount effect's call of
\* initializeClient under way when the provider is mounted.
ProviderState(isMounted) ==
  /\ mounted = isMounted
  /\ transcripts = <<>>
  /\ receivedFinalUserMessage = FALSE
  /\ botStoppedSpeaking = FALSE
  /\ previousAiAssistRunning = FALSE
  /\ connectionStatus = "idle"
  /\ sceneStatus = None
  /\ receivedFinalUserMessageRef = FALSE
  /\ botStoppedSpeakingRef = FALSE
  /\ clientRef = 0
  /\ queue = <<>>
  /\ effects = {}
  /\ clients = <<>>
  /\ heard = <<>>
  /\ emitted = <<>>
  /\ shown = <<>>
  /\ connectCalls = 0
  /\ initializing = IF isMounted THEN 1 ELSE 0

\* Frames the application holds ready-made: a transcript with a text, a
\* flag and a blob, and frames whose fields bear the names the other two
\* envelope kinds use.
ExampleFrame ==
  Obj("TranscriptFrame",
      <<Prop("text", Str("hello")), Prop("final", Bool(TRUE)), Prop("audio", Blob)>>)
DisguisedFrame(t) ==
  Obj("TranscriptFrame",
      <<Prop("___type___", Str(t)), Prop("audio", Str("AQI=")),
        Prop("message", Obj("Object", <<Prop("id", Str("1"))>>))>>)
\* Structures that refer to themselves: an object with itself as a
\* property, an array with itself as an item.
SelfObject == Obj("Object", <<Prop("self", Cycle)>>)
SelfList == List(<<Num(1), Cycle>>, FALSE)
\* Frames holding such a structure in a field of the given name.
CyclicFrames ==
  {Obj("TranscriptFrame", <<Prop(f, c)>>) :
     f \in {"text", "metadata"}, c \in {SelfObject, SelfList}}
    \cup {Obj("TranscriptFrame", <<Prop("text", Cycle)>>),
          Obj("TranscriptFrame", <<Prop("constructor", Undefined), Prop("text", SelfObject)>>)}
PreparedFrames ==
  {ExampleFrame, DisguisedFrame("audio"), DisguisedFrame("message")} \cup CyclicFrames

Init ==
  /\ pending \in
       {[op |-> "serialize", frame |-> Obj(t, <<>>)] : t \in TypeTags}
         \cup {[op |-> "serialize", frame |-> f] : f \in PreparedFrames}
         \cup {[op |-> "serialize", frame |-> v] : v \in NonFrameInputs}
         \cup {[op |-> "serializeAudio", data |-> <<>>, sample_rate |-> r, num_channels |-> c] :
                 r \in SampleRates, c \in ChannelCounts}
         \cup {[op |-> "serializeMessage", msg |-> m] : m \in RTVIMessages}
         \cup {[op |-> "deserialize", data |-> d] : d \in ForeignPayloads}
  /\ sent = None
  /\ received = None
  /\ forwarded = None
  /\ ProviderState(FALSE)

\* The application sets the i-th field name of the frame it is building.
SetField(i, value) ==
  /\ pending.op = "serialize" /\ pending.frame.k = "object"
  /\ sent = None
  /\ Len(pending.frame.props) < MaxFields
  /\ \A j \in i..Len(FieldNames) : ~HasOwn(pending.frame, FieldNames[j])
  /\ pending' = [pending EXCEPT !.frame.props = Append(@, Prop(FieldNames[i], value))]
  /\ UNCHANGED <<sent, received, forwarded, providerVars>>

\* The application appends a byte to the audio buffer it is filling.
AppendByte(b) ==
  /\ pending.op = "serializeAudio"
  /\ sent = None
  /\ Len(pending.data) < MaxBytes
  /\ pending' = [pending EXCEPT !.data = Append(@, b)]
  /\ UNCHANGED <<sent, received, forwarded, providerVars>>

\* Serialize with _frameToDict writing the type tag into the frame it reads
\* instead of into frameDict.
SerializeWritingFrame ==
  /\ pending.op = "serialize" /\ sent = None
  /\ sent' = [k |-> "call", out |-> serialize(pending.frame)]
  /\ pending' = IF pending.frame.k = "object" /\ ~IsThrow(ConstructorName(pending.frame))
                THEN [pending EXCEPT !.frame.props =
                        SetProp(@, "___frame___", ConstructorName(pending.frame))]
                ELSE pending
  /\ UNCHANGED <<received, forwarded, providerVars>>

Serialize ==
  /\ pending.op = "serialize" /\ sent = None
  /\ sent' = [k |-> "call", out |-> serialize(pending.frame)]
  /\ UNCHANGED <<pending, received, forwarded, providerVars>>

SerializeAudio ==
  /\ pending.op = "serializeAudio" /\ sent = None
  /\ sent' = [k |-> "call",
              out |-> serializeAudio(pending.data, pending.sample_rate, pending.num_channels)]
  /\ UNCHANGED <<pending, received, forwarded, providerVars>>

SerializeMessage ==
  /\ pending.op = "serializeMessage" /\ sent = None
  /\ sent' = [k |-> "call", out |-> serializeMessage(pending.msg)]
  /\ UNCHANGED <<pending, received, forwarded, providerVars>>

\* The transport delivers the payload sent; the receiver decodes it.
Deliver ==
  /\ sent # None /\ sent.out.k = "string"
  /\ received = None
  /\ received' = [k |-> "call", data |-> sent.out, promise |-> deserialize(sent.out)]
  /\ UNCHANGED <<pending, sent, forwarded, providerVars>>

\* A payload from elsewhere is decoded.
Receive ==
  /\ pending.op = "deserialize"
  /\ received = None
  /\ received' = [k |-> "call", data |-> pending.data, promise |-> deserialize(pending.data)]
  /\ UNCHANGED <<pending, sent, forwarded, providerVars>>

\* The receiver forwards the frame a raw result carries: it encodes it
\* again.
Forward ==
  /\ received # None /\ forwarded = None
  /\ Get(PromiseValue(received.promise), "type") = Str("raw")
  /\ forwarded' = [k |-> "call",
                   out |-> serialize(Get(PromiseValue(received.promise), "message"))]
  /\ UNCHANGED <<pending, sent, received, providerVars>>

Next ==
  \/ \E i \in 1..Len(FieldNames), value \in FieldValues : SetField(i, value)
  \/ \E b \in AudioBytes : AppendByte(b)
  \/ Serialize
  \/ SerializeAudio
  \/ SerializeMessage
  \/ Deliver
  \/ Receive
  \/ Forward

Spec == Init /\ [][Next]_vars

(***************************************************************************)
(* TransportProvider: the transcript list.                                 *)
(***************************************************************************)
MaxEvents == 3
MaxClients == 2

Message(role, text, final) == [role |-> role, text |-> text, final |-> final]

\* The index of the last message of a role, 0 when there is none (the
\* code's -1).
LastIndexOf(prev, role) ==
  IF \E i \in 1..Len(prev) : prev[i].role = role
  THEN CHOOSE i \in 1..Len(prev) :
         prev[i].role = role /\ \A j \in (i + 1)..Len(prev) : prev[j].role # role
  ELSE 0

\* The function addTranscript hands to setTranscripts, applied to prev
\* with the refs as they are when it runs: the new list, and whether it
\* called setReceivedFinalUserMessage(false), setBotStoppedSpeaking(false).
addTranscript(prev, role, text, final, finalRef, stoppedRef) ==
  LET shouldCreateNew == IF role = "user" THEN finalRef ELSE stoppedRef
      last == LastIndexOf(prev, role)
      list == IF last # 0 /\ ~shouldCreateNew
              THEN [prev EXCEPT ![last] =
                      Message(role, IF role = "user" THEN text ELSE @.text \o text, final)]
              ELSE Append(prev, Message(role, text, final))
  IN [transcripts |-> list,
      resetFinal |-> role = "user" /\ shouldCreateNew,
      resetStopped |-> role = "bot" /\ shouldCreateNew /\ final]

\* An update on the queue: the hook it belongs to and the value set, for
\* transcripts the updater's arguments or the state it already computed.
Update(hook, value) == [hook |-> hook, value |-> value]
Updater(role, text, final) == [eager |-> FALSE, role |-> role, text |-> text, final |-> final]
Computed(list) == [eager |-> TRUE, list |-> list]

\* The updates of one hook, in call order.
UpdatesOf(hook) == SelectSeq(queue, LAMBDA u : u.hook = hook)
\* The value a hook has after its updates, cur when it has none.
LastValue(hook, cur) ==
  LET us == UpdatesOf(hook) IN IF us = <<>> THEN cur ELSE us[Len(us)].value

\* The transcripts hook's updates applied in order from the i-th on.
RECURSIVE ApplyTranscriptUpdates(_, _, _)
ApplyTranscriptUpdates(us, i, acc) ==
  IF i > Len(us) THEN acc
  ELSE LET u == us[i].value
       IN IF u.eager
          THEN ApplyTranscriptUpdates(us, i + 1, [acc EXCEPT !.transcripts = u.list])
          ELSE LET r == addTranscript(acc.transcripts, u.role, u.text, u.final,
                                      receivedFinalUserMessageRef, botStoppedSpeakingRef)
               IN ApplyTranscriptUpdates(us, i + 1,
                    [transcripts |-> r.transcripts,
                     resetFinal |-> acc.resetFinal \/ r.resetFinal,
                     resetStopped |-> acc.resetStopped \/ r.resetStopped])

\* The text of the next transcript event: the events carry different
\* texts.
Texts == "abcdefgh"
NextText == CharAt(Texts, Len(heard) + 1)
\* The events so far: callbacks called, scene statuses reported, calls of
\* reinitializeTransport, the unmount.
Events ==
  Len(heard) + Len(emitted) + (Len(clients) + initializing - 1) + (IF mounted THEN 0 ELSE 1)
MoreEvents == Events < MaxEvents

\* Every update has been rendered and every effect has run.
Settled == mounted /\ queue = <<>> /\ effects = {}

\* addTranscript(role, text, final) called from a callback.  React runs
\* the updater at once when it takes the component's queue to be empty,
\* and otherwise in the next render.
AddTranscriptUpdates(role, text, final, eager) ==
  IF eager
  THEN LET r == addTranscript(transcripts, role, text, final,
                              receivedFinalUserMessageRef, botStoppedSpeakingRef)
       IN <<Update("transcripts", Computed(r.transcripts))>>
            \o (IF r.resetFinal THEN <<Update("receivedFinalUserMessage", FALSE)>> ELSE <<>>)
            \o (IF r.resetStopped THEN <<Update("botStoppedSpeaking", FALSE)>> ELSE <<>>)
  ELSE <<Update("transcripts", Updater(role, text, final))>>

\* Whether the updater may run at once.
Eagerness == IF queue = <<>> THEN BOOLEAN ELSE {FALSE}

OnUserTranscript(final, eager) ==
  /\ mounted /\ clients # <<>> /\ MoreEvents
  /\ queue' = queue \o AddTranscriptUpdates("user", NextText, final, eager)
                    \o (IF final THEN <<Update("receivedFinalUserMessage", TRUE)>> ELSE <<>>)
  /\ heard' = Append(heard, [type |-> "user", text |-> NextText, final |-> final, settled |-> Settled])
  /\ UNCHANGED <<codecVars, mounted, stateVars, refVars, effects, clients, emitted, shown,
                 connectCalls, initializing>>

\* onBotOutput and onBotTranscript.
OnBotText(final, eager) ==
  /\ mounted /\ clients # <<>> /\ MoreEvents
  /\ queue' = queue \o AddTranscriptUpdates("bot", NextText, final, eager)
  /\ heard' = Append(heard, [type |-> "bot", text |-> NextText, final |-> final, settled |-> Settled])
  /\ UNCHANGED <<codecVars, mounted, stateVars, refVars, effects, clients, emitted, shown,
                 connectCalls, initializing>>

OnBotStoppedSpeaking ==
  /\ mounted /\ clients # <<>> /\ MoreEvents
  /\ queue' = Append(queue, Update("botStoppedSpeaking", TRUE))
  /\ heard' = Append(heard, [type |-> "stopped", settled |-> Settled])
  /\ UNCHANGED <<codecVars, mounted, stateVars, refVars, effects, clients, emitted, shown,
                 connectCalls, initializing>>

\* The glasses report a scene status; useGlassesConnection will return it
\* to the next render.
OnSceneStatusUpdated(aiAssistRunning) ==
  /\ mounted /\ MoreEvents
  /\ queue' = Append(queue, Update("sceneStatus", [aiAssistRunning |-> aiAssistRunning]))
  /\ emitted' = Append(emitted, aiAssistRunning)
  /\ UNCHANGED <<codecVars, mounted, stateVars, refVars, effects, clients, heard, shown,
                 connectCalls, initializing>>


(***************************************************************************)
(* TransportProvider: renders and effects.                                 *)
(***************************************************************************)
\* A render: the queue is applied, each hook's updates in call order.  The
\* updaters of transcripts run now, with the refs as they are now, and the
\* flags they reset are set after the flag's other updates.  The effects
\* whose dependencies changed are left to run.
Render ==
  /\ mounted /\ queue # <<>> /\ effects = {}
  /\ LET t == ApplyTranscriptUpdates(UpdatesOf("transcripts"), 1,
                 [transcripts |-> transcripts, resetFinal |-> FALSE, resetStopped |-> FALSE])
         final == IF t.resetFinal THEN FALSE
                  ELSE LastValue("receivedFinalUserMessage", receivedFinalUserMessage)
         stopped == IF t.resetStopped THEN FALSE
                    ELSE LastValue("botStoppedSpeaking", botStoppedSpeaking)
         previous == LastValue("previousAiAssistRunning", previousAiAssistRunning)
         newStatus == UpdatesOf("sceneStatus") # <<>>
     IN /\ transcripts' = t.transcripts
        /\ receivedFinalUserMessage' = final
        /\ botStoppedSpeaking' = stopped
        /\ previousAiAssistRunning' = previous
        /\ connectionStatus' = LastValue("connectionStatus", connectionStatus)
        /\ sceneStatus' = LastValue("sceneStatus", sceneStatus)
        /\ shown' = IF newStatus
                    THEN Append(shown, LastValue("sceneStatus", sceneStatus).aiAssistRunning)
                    ELSE shown
        /\ effects' = (IF final # receivedFinalUserMessage
                       THEN {"receivedFinalUserMessage"} ELSE {})
                        \cup (IF stopped # botStoppedSpeaking
                              THEN {"botStoppedSpeaking"} ELSE {})
                        \cup (IF newStatus \/ previous # previousAiAssistRunning
                              THEN {"sceneStatus"} ELSE {})
  /\ queue' = <<>>
  /\ UNCHANGED <<codecVars, mounted, refVars, clients, heard, emitted, connectCalls,
                 initializing>>

\* client.startBotAndConnect(config): a client that is neither connecting
\* nor connected starts to connect.
StartBotAndConnect(cs, c) ==
  IF cs[c].conn \in {"new", "disconnected"} THEN [cs EXCEPT ![c].conn = "connecting"] ELSE cs

\* The updates connect() makes.
ConnectUpdates ==
  IF clientRef = 0 THEN <<>>
  ELSE IF clients[clientRef].conn \in {"new", "disconnected"}
  THEN <<Update("connectionStatus", "connecting")>>
  ELSE <<Update("connectionStatus", "connecting"), Update("connectionStatus", "error")>>

\* RunEffects whose scene status effect does not look at
\* previousAiAssistRunning.
RunEffectsConnectingWhenRunning ==
  /\ mounted /\ effects # {}
  /\ receivedFinalUserMessageRef' =
       IF "receivedFinalUserMessage" \in effects THEN receivedFinalUserMessage
       ELSE receivedFinalUserMessageRef
  /\ botStoppedSpeakingRef' =
       IF "botStoppedSpeaking" \in effects THEN botStoppedSpeaking ELSE botStoppedSpeakingRef
  /\ IF "sceneStatus" \in effects /\ sceneStatus # None
     THEN LET currentAiAssistRunning == sceneStatus.aiAssistRunning
              connects == currentAiAssistRunning
          IN /\ connectCalls' = IF connects THEN connectCalls + 1 ELSE connectCalls
             /\ clients' = IF connects /\ clientRef # 0
                           THEN StartBotAndConnect(clients, clientRef) ELSE clients
             /\ queue' = queue
                          \o (IF connects THEN ConnectUpdates ELSE <<>>)
                          \o (IF currentAiAssistRunning # previousAiAssistRunning
                              THEN <<Update("previousAiAssistRunning", currentAiAssistRunning)>>
                              ELSE <<>>)
     ELSE UNCHANGED <<connectCalls, clients, queue>>
  /\ effects' = {}
  /\ UNCHANGED <<codecVars, mounted, stateVars, clientRef, heard, emitted, shown,
                 initializing>>

\* The effects of the last render run: the two that copy a flag into its
\* ref, and the scene status effect, which invokes connect when
\* aiAssistRunning is true and previousAiAssistRunning false and then sets
\* previousAiAssistRunning.
RunEffects ==
  /\ mounted /\ effects # {}
  /\ receivedFinalUserMessageRef' =
       IF "receivedFinalUserMessage" \in effects THEN receivedFinalUserMessage
       ELSE receivedFinalUserMessageRef
  /\ botStoppedSpeakingRef' =
       IF "botStoppedSpeaking" \in effects THEN botStoppedSpeaking ELSE botStoppedSpeakingRef
  /\ IF "sceneStatus" \in effects /\ sceneStatus # None
     THEN LET currentAiAssistRunning == sceneStatus.aiAssistRunning
              connects == currentAiAssistRunning /\ ~previousAiAssistRunning
          IN /\ connectCalls' = IF connects THEN connectCalls + 1 ELSE connectCalls
             /\ clients' = IF connects /\ clientRef # 0
                           THEN StartBotAndConnect(clients, clientRef) ELSE clients
             /\ queue' = queue
                          \o (IF connects THEN ConnectUpdates ELSE <<>>)
                          \o (IF currentAiAssistRunning # previousAiAssistRunning
                              THEN <<Update("previousAiAssistRunning", currentAiAssistRunning)>>
                              ELSE <<>>)
     ELSE UNCHANGED <<connectCalls, clients, queue>>
  /\ effects' = {}
  /\ UNCHANGED <<codecVars, mounted, stateVars, clientRef, heard, emitted, shown,
                 initializing>>

(***************************************************************************)
(* TransportProvider: the client.                                          *)
(***************************************************************************)
\* The name initializeClient registers the function-call handler under,
\* and the name the two clean-ups unregister.
RegisteredName == "CloseWhenNothingToDo"
UnregisteredName == "close_when_nothing_to_do"

\* initializeClient, from the end of its awaits on: the client is created,
\* the handler registered, the client stored in clientRef.
InitializeClient ==
  /\ initializing > 0 /\ Len(clients) < MaxClients
  /\ clients' = Append(clients,
                   [handlers |-> {RegisteredName}, conn |-> "new", released |-> FALSE])
  /\ clientRef' = Len(clients) + 1
  /\ initializing' = initializing - 1
  /\ UNCHANGED <<codecVars, mounted, stateVars, receivedFinalUserMessageRef,
                 botStoppedSpeakingRef, queue, effects, heard, emitted, shown, connectCalls>>

\* The client reports that it is connected.
OnConnected(c) ==
  /\ mounted /\ clients[c].conn = "connecting"
  /\ clients' = [clients EXCEPT ![c].conn = "connected"]
  /\ queue' = Append(queue, Update("connectionStatus", "connected"))
  /\ UNCHANGED <<codecVars, mounted, stateVars, refVars, effects, heard, emitted, shown,
                 connectCalls, initializing>>

\* The clean-up both paths share: the handler is unregistered, the client
\* disconnected.
Release(cs, c) ==
  [cs EXCEPT ![c] = [handlers |-> @.handlers \ {UnregisteredName},
                     conn |-> "disconnected", released |-> TRUE]]

\* reinitializeTransport(), up to the awaits of the initializeClient it
\* calls; the connectionStatus it reads is that of the last render.
ReinitializeTransport ==
  /\ mounted /\ MoreEvents /\ Len(clients) + initializing < MaxClients
  /\ IF clientRef # 0 /\ connectionStatus = "connected"
     THEN /\ clients' = Release(clients, clientRef)
          /\ queue' = queue \o <<Update("connectionStatus", "disconnected"),
                                  Update("connectionStatus", "idle")>>
     ELSE /\ clients' = clients
          /\ queue' = Append(queue, Update("connectionStatus", "idle"))
  /\ initializing' = initializing + 1
  /\ UNCHANGED <<codecVars, mounted, stateVars, refVars, effects, heard, emitted, shown,
                 connectCalls>>

\* The provider is unmounted: the clean-up of the mount effect runs.
Unmount ==
  /\ mounted /\ MoreEvents
  /\ mounted' = FALSE
  /\ clients' = IF clientRef # 0 THEN Release(clients, clientRef) ELSE clients
  /\ queue' = <<>>
  /\ effects' = {}
  /\ UNCHANGED <<codecVars, stateVars, refVars, heard, emitted, shown, connectCalls,
                 initializing>>

ProviderInit ==
  /\ pending = None /\ sent = None /\ received = None /\ forwarded = None
  /\ ProviderState(TRUE)

ProviderNext ==
  \/ \E final \in BOOLEAN : \E eager \in Eagerness : OnUserTranscript(final, eager)
  \/ \E final \in BOOLEAN : \E eager \in Eagerness : OnBotText(final, eager)
  \/ OnBotStoppedSpeaking
  \/ \E aiAssistRunning \in BOOLEAN : OnSceneStatusUpdated(aiAssistRunning)
  \/ Render
  \/ RunEffects
  \/ InitializeClient
  \/ \E c \in 1..Len(clients) : OnConnected(c)
  \/ ReinitializeTransport
  \/ Unmount

ProviderSpec == ProviderInit /\ [][ProviderNext]_vars

(***************************************************************************)
(* What the properties below speak of.                                     *)
(***************************************************************************)
\* serialize has been called on the pending frame.
Encoded == pending.op = "serialize" /\ sent # None
\* ... and what it returned has been delivered and decoded.
RoundTripped == Encoded /\ received # None
AudioDelivered == pending.op = "serializeAudio" /\ received # None
MessageDelivered == pending.op = "serializeMessage" /\ received # None
ForeignDecoded == pending.op = "deserialize" /\ received # None

\* The value the promise of the decode call is fulfilled with.
Result == PromiseValue(received.promise)
ResultType == Get(Result, "type")
DecodedFrame == Get(Result, "message")

\* The fields of a frame object: its own properties other than the two
\* carriers of its type tag.
FrameFields(o) == SelectSeq(o.props, LAMBDA p : p.key \notin {"___frame___", "constructor"})

RECURSIVE DeepEqual(_, _)
\* Deep equality of two values: same type, same contents, objects compared
\* by their fields whatever the order.
DeepEqual(a, b) ==
  IF a.k # b.k THEN FALSE
  ELSE IF a.k = "array"
  THEN /\ Len(a.items) = Len(b.items)
       /\ \A i \in 1..Len(a.items) : DeepEqual(a.items[i], b.items[i])
  ELSE IF a.k = "object"
  THEN LET fa == FrameFields(a)
           fb == FrameFields(b)
       IN /\ {fa[i].key : i \in 1..Len(fa)} = {fb[i].key : i \in 1..Len(fb)}
          /\ \A i \in 1..Len(fa), j \in 1..Len(fb) :
               fa[i].key = fb[j].key => DeepEqual(fa[i].val, fb[j].val)
  ELSE a = b

\* A field name that encode and decode treat as an ordinary field.
OrdinaryField(key) ==
  ~IsBaseFrameField(key) /\ ~StartsWith(key, "__") /\ key \notin ObjectPrototypeKeys

RECURSIVE SupportedValue(_)
\* A value of the types frames are made of: null, a boolean, a number, a
\* string, a blob, a list of such values, a nested frame.
SupportedValue(v) ==
  CASE v.k \in {"null", "boolean", "number", "string", "Uint8Array"} -> TRUE
    [] v.k = "array" -> \A i \in 1..Len(v.items) : SupportedValue(v.items[i])
    [] v.k = "object" -> HasOwn(v, "___frame___")
    [] OTHER -> FALSE

\* C1 (as claimed): for every frame of a named class whose fields have
\* ordinary names and hold null, booleans, numbers, strings, lists, binary
\* blobs or nested frames, decode(encode(frame)) resolves to a raw result
\* whose message has fields deeply equal to the frame's, blobs byte for byte.
C1_RoundTripIdentity ==
  (/\ RoundTripped
   /\ pending.frame.k = "object" /\ pending.frame.cls # ""
   /\ \A i \in 1..Len(pending.frame.props) :
        /\ OrdinaryField(pending.frame.props[i].key)
        /\ SupportedValue(pending.frame.props[i].val))
  => /\ ResultType = Str("raw")
     /\ DeepEqual(DecodedFrame, pending.frame)

\* C2 (as claimed): serialize never throws; whatever its argument, it
\* returns a wire string or null.
C2_EncodeNeverThrows ==
  Encoded => ~IsThrow(sent.out) /\ sent.out.k \in {"string", "null"}

\* C3: decoding a text that does not parse, or undefined or null, fulfils
\* the promise with a raw result whose message is null.
C3_MalformedInputResolvesRawNull ==
  (ForeignDecoded /\ pending.data \in {Str(t) : t \in MalformedTexts} \cup {Undefined, Null})
  => /\ PromiseState(received.promise) = "fulfilled"
     /\ Result = RawResult(Null)

C3_Witness ==
  /\ ForeignDecoded /\ pending.data = Str("{not valid json")
  /\ PromiseState(received.promise) = "fulfilled"
  /\ Result = RawResult(Null)

\* C4: every decode call resolves its promise exactly once, with an audio, a
\* message or a raw result; the promise is neither rejected nor left pending.
C4_DecodeResolvesExactlyOnce ==
  received # None
  => /\ Len(received.promise.resolved) = 1
     /\ ~received.promise.threw
     /\ PromiseState(received.promise) = "fulfilled"
     /\ ResultType \in {Str("audio"), Str("message"), Str("raw")}

C4_Witness ==
  /\ AudioDelivered /\ Len(pending.data) = 2
  /\ Len(received.promise.resolved) = 1
  /\ ResultType = Str("audio")

\* C5 (as claimed): for every audio buffer, decode(encodeAudio(buffer, rate,
\* channels)) resolves to an audio result whose Int16Array holds exactly the
\* bytes of the buffer.
C5_AudioSamplesOfEveryBuffer ==
  AudioDelivered
  => /\ ResultType = Str("audio")
     /\ Get(Result, "audio") = Int16(pending.data)

\* C5 (amended): the same for every buffer with an even number of bytes.
C5_AudioSamplesOfEvenBuffer ==
  (AudioDelivered /\ Len(pending.data) % 2 = 0)
  => /\ ResultType = Str("audio")
     /\ Get(Result, "audio") = Int16(pending.data)

C5_Witness ==
  /\ AudioDelivered /\ pending.data = <<127, 255>>
  /\ ResultType = Str("audio")
  /\ Get(Result, "audio") = Int16(<<127, 255>>)

\* C6 (as claimed): the audio result of decode(encodeAudio(buffer, rate,
\* channels)) carries the sample rate and the channel count passed to
\* encodeAudio.
C6_AudioParametersPreserved ==
  (AudioDelivered /\ Len(pending.data) % 2 = 0)
  => /\ ResultType = Str("audio")
     /\ pending.sample_rate \in {Get(Result, "sample_rate"), Get(Result, "sampleRate")}
     /\ pending.num_channels \in {Get(Result, "num_channels"), Get(Result, "numChannels")}

\* C7: for every message of nested JSON-compatible data,
\* decode(encodeMessage(msg)) resolves to a message result whose message is
\* deep-equal to msg.
C7_MessagePassThrough ==
  MessageDelivered
  => /\ ResultType = Str("message")
     /\ DeepEqual(Get(Result, "message"), pending.msg)

C7_Witness ==
  /\ MessageDelivered
  /\ pending.msg.k = "object" /\ HasOwn(pending.msg, "data")
  /\ ResultType = Str("message")
  /\ Get(Result, "message") = pending.msg

\* The decode of a frame envelope holding f as the base64 text of bytes b
\* next to __f_is_bytes__: true, given as text or as a parsed structure.
EnvelopeDecoded(f, b) ==
  /\ ForeignDecoded
  /\ pending.data \in {MarkerEnvelope(f, b), JSONStringify(MarkerEnvelope(f, b))}

MarkerFree(frame) ==
  \A i \in 1..Len(frame.props) : ~StartsWith(frame.props[i].key, "__")

\* C8 (as claimed): for every field name f, the frame reconstructed from
\* such an envelope holds the decoded blob in f and no marker key.
C8_MarkersNeverLeakAnyField ==
  \A f \in EnvelopeFields, b \in EnvelopeBlobs :
    EnvelopeDecoded(f, b)
    => /\ ResultType = Str("raw")
       /\ DecodedFrame.k = "object"
       /\ HasOwn(DecodedFrame, f) /\ Get(DecodedFrame, f) = Bytes(b)
       /\ MarkerFree(DecodedFrame)

\* C8 (amended): the same for every field name f that is no base Frame
\* field, does not begin with "__" and is not "constructor".
C8_MarkersNeverLeak ==
  \A f \in EnvelopeFields, b \in EnvelopeBlobs :
    (/\ EnvelopeDecoded(f, b)
     /\ ~IsBaseFrameField(f) /\ ~StartsWith(f, "__") /\ f # "constructor")
    => /\ ResultType = Str("raw")
       /\ DecodedFrame.k = "object"
       /\ HasOwn(DecodedFrame, f) /\ Get(DecodedFrame, f) = Bytes(b)
       /\ MarkerFree(DecodedFrame)

C8_Witness ==
  /\ EnvelopeDecoded("foo", <<1, 2>>)
  /\ pending.data.k = "string"
  /\ Get(DecodedFrame, "foo") = Bytes(<<1, 2>>)
  /\ ~HasOwn(DecodedFrame, "__foo_is_bytes__")

\* The envelope serialize wrote, read back from the wire text.
Envelope == JSONParse(sent.out.s)

Tagged ==
  /\ pending.frame.k = "object"
  /\ ConstructorName(pending.frame).k = "string"
  /\ ConstructorName(pending.frame).s # ""

RECURSIVE JSONData(_)
\* Data that JSON text represents: null, booleans, numbers, strings, and
\* unflagged lists and plain maps of such data.
JSONData(v) ==
  CASE v.k \in {"null", "boolean", "number", "string"} -> TRUE
    [] v.k = "array" ->
         ~v.isTuple /\ \A i \in 1..Len(v.items) : JSONData(v.items[i])
    [] v.k = "object" ->
         v.cls = "Object" /\ \A i \in 1..Len(v.props) : JSONData(v.props[i].val)
    [] OTHER -> FALSE

Unsupported(v) == v.k \in {"function", "undefined"}

Payload ==
  IF received.data.k = "string" THEN JSONParse(received.data.s) ELSE received.data
\* The payload is a value whose ___type___ can be read.
IsPayload(env) == ~IsThrow(env) /\ env.k \notin {"undefined", "null"}
Discriminator(env) == Get(env, "___type___")
\* The bytes of the payload's audio text, or the exception of atob.
AudioOfPayload(env) == Atob(ToStr(Get(env, "audio")))
\* The result is a raw result carrying null, or a frame whose type tag is
\* the ___frame___ of the payload.
GenericFrameResult(env) ==
  /\ ResultType = Str("raw")
  /\ \/ DecodedFrame = Null
     \/ /\ DecodedFrame.k = "object"
        /\ Get(Get(DecodedFrame, "constructor"), "name") = Get(env, "___frame___")

\* C13 (as claimed): a payload whose ___type___ is "audio" yields an audio
\* result carrying the base64-decoded buffer, one whose ___type___ is
\* "message" yields a message result carrying the embedded message, and
\* every other payload takes the generic-frame path, whatever other keys
\* (___frame___ among them) it carries.
C13_DispatchOnDiscriminator ==
  received # None
  => LET env == Payload
         audio == AudioOfPayload(env)
     IN IsPayload(env)
        => /\ Discriminator(env) = Str("audio")
                => /\ ResultType = Str("audio")
                   /\ ~IsThrow(audio)
                   /\ Get(Result, "audio") = Int16(audio.bytes)
           /\ Discriminator(env) = Str("message")
                => Result = MessageResult(Get(env, "message"))
           /\ Discriminator(env) \notin {Str("audio"), Str("message")}
                => GenericFrameResult(env)

\* C13 (amended): the same, the audio result being that of a payload whose
\* audio is the base64 text of an even number of bytes.
C13_DispatchOnWellFormedPayload ==
  received # None
  => LET env == Payload
         audio == AudioOfPayload(env)
     IN IsPayload(env)
        => /\ (/\ Discriminator(env) = Str("audio")
               /\ ~IsThrow(audio)
               /\ Len(audio.bytes) % 2 = 0)
                => /\ ResultType = Str("audio")
                   /\ Get(Result, "audio") = Int16(audio.bytes)
           /\ Discriminator(env) = Str("message")
                => Result = MessageResult(Get(env, "message"))
           /\ Discriminator(env) \notin {Str("audio"), Str("message")}
                => GenericFrameResult(env)

C13_Witness ==
  /\ ForeignDecoded
  /\ pending.data =
       JSONStringify(TypedEnvelope(Str("audio"), Str("TranscriptFrame"), Str("AQI=")))
  /\ HasOwn(Payload, "___frame___")
  /\ ResultType = Str("audio")
  /\ Get(Result, "audio") = Int16(<<1, 2>>)

\* Every text of the envelope that a truthy bytes marker stands next to is
\* base64 text.
MarkedTextsValid(env) ==
  \A i \in 1..Len(env.props) :
    LET p == env.props[i]
    IN (p.val.k = "string" /\ Truthy(Get(env, "__" \o p.key \o "_is_bytes__")))
       => ~IsThrow(Atob(p.val.s))

\* The payload is a JSON object that takes the generic-frame path.
GenericEnvelope(env) ==
  env.k = "object" /\ Discriminator(env) \notin {Str("audio"), Str("message")}
\* ... and has a type tag.
FrameEnvelope(env) == GenericEnvelope(env) /\ Truthy(Get(env, "___frame___"))

\* C14 (as claimed): every payload that is a JSON object and whose
\* ___type___ is neither "audio" nor "message" resolves to a raw result
\* carrying a reconstructed frame, not null.
C14_UnknownDiscriminatorYieldsFrame ==
  (received # None /\ GenericEnvelope(Payload))
  => /\ ResultType = Str("raw")
     /\ DecodedFrame.k = "object"

\* C14 (amended): the same for a payload whose ___frame___ is a non-empty
\* type tag and whose bytes-marked texts are base64 text; the frame carries
\* that tag, whatever it is.
C14_UnknownDiscriminatorTaggedYieldsFrame ==
  received # None
  => LET env == Payload
     IN (FrameEnvelope(env) /\ MarkedTextsValid(env))
        => /\ ResultType = Str("raw")
           /\ DecodedFrame.k = "object"
           /\ Get(Get(DecodedFrame, "constructor"), "name") = Get(env, "___frame___")

C14_Witness ==
  /\ ForeignDecoded
  /\ pending.data = TypedEnvelope(Str("video"), Str("NoSuchFrame"), Str("AQI="))
  /\ ResultType = Str("raw")
  /\ DecodedFrame.k = "object"
  /\ Get(Get(DecodedFrame, "constructor"), "name") = Str("NoSuchFrame")
  /\ Get(DecodedFrame, "text") = Str("hi")

\* C15 (as claimed): every payload text that serialize, serializeAudio or
\* serializeMessage returns carries the discriminator of exactly its kind:
\* ___type___ "audio", ___type___ "message", or ___frame___ holding the type
\* tag of the frame next to no ___type___ key.
C15_PayloadCarriesDiscriminator ==
  (sent # None /\ sent.out.k = "string")
  => /\ pending.op = "serializeAudio"
          => /\ Get(Envelope, "___type___") = Str("audio")
             /\ ~HasOwn(Envelope, "___frame___")
     /\ pending.op = "serializeMessage"
          => /\ Get(Envelope, "___type___") = Str("message")
             /\ ~HasOwn(Envelope, "___frame___")
     /\ pending.op = "serialize"
          => /\ HasOwn(Envelope, "___frame___")
             /\ Get(Envelope, "___frame___") = ConstructorName(pending.frame)
             /\ ~HasOwn(Envelope, "___type___")

RECURSIVE SameShape(_, _)
\* b has the type shape of a: the same type at every depth, a sequence
\* flagged as a tuple where a is, a field for every field of a.
SameShape(a, b) ==
  IF a.k # b.k THEN FALSE
  ELSE IF a.k = "array"
  THEN /\ a.isTuple = b.isTuple
       /\ Len(a.items) = Len(b.items)
       /\ \A i \in 1..Len(a.items) : SameShape(a.items[i], b.items[i])
  ELSE IF a.k = "object"
  THEN \A i \in 1..Len(a.props) :
         /\ HasOwn(b, a.props[i].key)
         /\ SameShape(a.props[i].val, Get(b, a.props[i].key))
  ELSE TRUE

\* C17 (as claimed): after decode(encode(frame)) a field holding a list or
\* a plain map has the type shape it had at every depth: blobs inside it
\* are blobs, flagged sequences inside it are flagged, lists are lists.
C17_ShapeAtEveryDepth ==
  (RoundTripped /\ Tagged)
  => \A i \in 1..Len(pending.frame.props) :
       LET p == pending.frame.props[i]
       IN (/\ OrdinaryField(p.key)
           /\ p.val.k \in {"array", "object"}
           /\ ~HasOwn(p.val, "___frame___"))
          => /\ DecodedFrame.k = "object"
             /\ HasOwn(DecodedFrame, p.key)
             /\ SameShape(p.val, Get(DecodedFrame, p.key))

\* C18 (as claimed): after decode(encode(frame)) a field that held a nested
\* frame-shaped object, one carrying the ___frame___ key, holds a frame with
\* the type tag of that object and fields equal to its fields, blobs
\* included.
C18_NestedFramesRoundTrip ==
  (RoundTripped /\ Tagged)
  => \A i \in 1..Len(pending.frame.props) :
       LET p == pending.frame.props[i]
           d == Get(DecodedFrame, p.key)
       IN (/\ OrdinaryField(p.key)
           /\ p.val.k = "object"
           /\ HasOwn(p.val, "___frame___"))
          => /\ DecodedFrame.k = "object"
             /\ HasOwn(DecodedFrame, p.key)
             /\ d.k = "object"
             /\ Get(Get(d, "constructor"), "name") = Get(p.val, "___frame___")
             /\ DeepEqual(d, p.val)

\* A field of the frame envelope throws when it is deserialized: it is a
\* text next to a truthy bytes marker and no base64 text.
FieldThrows(env) ==
  \E i \in 1..Len(env.props) :
    LET p == env.props[i]
    IN /\ ~IsSpecialKey(p.key) /\ ~IsBaseFrameField(p.key)
       /\ p.val.k = "string"
       /\ Truthy(Get(env, "__" \o p.key \o "_is_bytes__"))
       /\ IsThrow(Atob(p.val.s))

RECURSIVE ThrowsWithin(_)
\* Deserialization throws in the frame envelope v or in a frame envelope
\* nested in it.
ThrowsWithin(v) ==
  CASE v.k = "array" -> \E i \in 1..Len(v.items) : ThrowsWithin(v.items[i])
    [] v.k = "object" ->
         \/ Truthy(Get(v, "___frame___")) /\ FieldThrows(v)
         \/ \E i \in 1..Len(v.props) : ThrowsWithin(v.props[i].val)
    [] OTHER -> FALSE

\* C19 (as claimed): when the payload is a frame envelope and the
\* deserialization of a field throws, at the top level or inside a nested
\* frame, decode resolves to a raw result whose message is null.
C19_ReconstructionFailureResolvesRawNull ==
  (received # None /\ LET env == Payload IN FrameEnvelope(env) /\ ThrowsWithin(env))
  => /\ PromiseState(received.promise) = "fulfilled"
     /\ Result = RawResult(Null)

\* The bytes marker that stands next to field key in the envelope.
BytesMarker(env, key) == Get(env, "__" \o key \o "_is_bytes__")

\* A key of the payload that stands for an ordinary field of the frame.
DecodedAsField(key) ==
  ~IsSpecialKey(key) /\ ~IsBaseFrameField(key) /\ key # "constructor"

\* C20 (as claimed): in the frame decoded from a frame envelope whose
\* bytes-marked texts are base64 text, an ordinary field that is a text in
\* the envelope is the blob of its base64 decoding if its bytes marker is
\* present and true, and the unchanged text otherwise; a field that is no
\* text is unchanged whatever its marker.
C20_BytesIffMarkerTrue ==
  received # None
  => LET env == Payload
     IN (FrameEnvelope(env) /\ MarkedTextsValid(env))
        => /\ DecodedFrame.k = "object"
           /\ \A i \in 1..Len(env.props) :
                LET p == env.props[i]
                    d == Get(DecodedFrame, p.key)
                IN /\ (DecodedAsField(p.key) /\ p.val.k = "string")
                        => IF BytesMarker(env, p.key) = Bool(TRUE)
                           THEN d = Atob(p.val.s)
                           ELSE d = p.val
                   /\ (/\ DecodedAsField(p.key) /\ p.val.k # "string"
                       /\ BytesMarker(env, p.key) # Undefined)
                        => DeepEqual(d, p.val)

\* C20 (amended): the same with the blob for every marker that is truthy
\* (true, a number other than 0, a non-empty text) and the unchanged text
\* for a marker that is absent or falsy.
C20_BytesIffMarkerTruthy ==
  received # None
  => LET env == Payload
     IN (FrameEnvelope(env) /\ MarkedTextsValid(env))
        => /\ DecodedFrame.k = "object"
           /\ \A i \in 1..Len(env.props) :
                LET p == env.props[i]
                    d == Get(DecodedFrame, p.key)
                IN /\ (DecodedAsField(p.key) /\ p.val.k = "string")
                        => IF Truthy(BytesMarker(env, p.key))
                           THEN d = Atob(p.val.s)
                           ELSE d = p.val
                   /\ (/\ DecodedAsField(p.key) /\ p.val.k # "string"
                       /\ BytesMarker(env, p.key) # Undefined)
                        => DeepEqual(d, p.val)

C20_Witness ==
  /\ ForeignDecoded
  /\ pending.data = JSONStringify(MarkedEnvelope("foo", Num(1), Str("AQI=")))
  /\ Get(DecodedFrame, "foo") = Bytes(<<1, 2>>)

\* A value JSON text holds as it is.
Primitive(v) == v.k \in {"null", "boolean", "number", "string"}

\* Key is a marker that stands for a field of the frame: a bytes marker of
\* a blob, or a tuple marker of a flagged sequence.
MarkerOfField(frame, key) ==
  \E i \in 1..Len(frame.props) :
    LET p == frame.props[i]
    IN \/ key = "__" \o p.key \o "_is_bytes__" /\ p.val.k = "Uint8Array"
       \/ key = "__" \o p.key \o "_is_tuple__" /\ p.val.k = "array" /\ p.val.isTuple

CycleInFields(frame) ==
  /\ frame.k = "object"
  /\ \E i \in 1..Len(frame.props) :
       /\ ~StartsWith(frame.props[i].key, "__")
       /\ frame.props[i].key \notin ObjectPrototypeKeys
       /\ HasCycle(frame.props[i].val)

\* C22: encode of a frame whose fields hold a reference cycle returns
\* null.
C22_CycleYieldsNull ==
  (Encoded /\ CycleInFields(pending.frame)) => sent.out = Null

\* The same of the frames whose constructor can be read.
C22_CycleYieldsNullWhenNamed ==
  (Encoded /\ CycleInFields(pending.frame) /\ ~IsThrow(ConstructorName(pending.frame)))
  => sent.out = Null

C22_CycleCaught ==
  /\ Encoded /\ CycleInFields(pending.frame) /\ sent.out = Null
  /\ HasOwn(pending.frame, "metadata")

\* C23: whatever the frame, the payload encode returned for it decodes to
\* a result of kind raw, never audio or message.
C23_FramePayloadDecodesAsRaw ==
  RoundTripped => ResultType = Str("raw")

C23_Witness ==
  /\ RoundTripped /\ pending.frame = DisguisedFrame("audio")
  /\ ResultType = Str("raw")
  /\ Get(DecodedFrame, "audio") = Str("AQI=")

\* The value is, or holds at some depth, an object carrying the key
\* ___frame___: a nested frame.
RECURSIVE HoldsFrame(_)
HoldsFrame(v) ==
  CASE v.k = "array" -> \E i \in 1..Len(v.items) : HoldsFrame(v.items[i])
    [] v.k = "object" ->
         In("___frame___", v) \/ \E i \in 1..Len(v.props) : HoldsFrame(v.props[i].val)
    [] OTHER -> FALSE

\* The decoded frame has been encoded again.
Forwarded == RoundTripped /\ forwarded # None

\* C24: for a frame with a non-empty type tag and no nested frame in its
\* fields, encoding the frame that the decode of its payload carries
\* returns the very same payload.
C24_ReencodingIsFixpoint ==
  (Forwarded /\ Tagged
     /\ \A i \in 1..Len(pending.frame.props) : ~HoldsFrame(pending.frame.props[i].val))
  => forwarded.out = sent.out

C24_Witness ==
  /\ Forwarded /\ Tagged
  /\ \E i \in 1..Len(pending.frame.props) :
       /\ pending.frame.props[i].key = "text"
       /\ pending.frame.props[i].val = List(<<Num(1), Num(2)>>, TRUE)
  /\ \E i \in 1..Len(pending.frame.props) :
       /\ pending.frame.props[i].key = "metadata"
       /\ pending.frame.props[i].val = Blob
  /\ forwarded.out = sent.out
  /\ forwarded.out =
       Str("{\"___frame___\":\"TranscriptFrame\",\"metadata\":{\"0\":1,\"1\":2},"
             \o "\"__text_is_tuple__\":true,\"text\":[1,2]}")

MessagesOf(role) == SelectSeq(transcripts, LAMBDA m : m.role = role)
EventsOf(type) == SelectSeq(heard, LAMBDA e : e.type = type)

\* The user messages the transcripts heard make: a transcript replaces the
\* text of the message before it, unless that one is final or there is
\* none, and then it is a new message.
RECURSIVE UserMessagesFrom(_, _, _)
UserMessagesFrom(es, i, acc) ==
  IF i > Len(es) THEN acc
  ELSE LET m == Message("user", es[i].text, es[i].final)
       IN UserMessagesFrom(es, i + 1,
            IF acc = <<>> \/ acc[Len(acc)].final
            THEN Append(acc, m)
            ELSE [acc EXCEPT ![Len(acc)] = m])

\* C26: whatever the order of the user transcripts, the renders and the
\* effect that copies receivedFinalUserMessage into its ref, a user
\* message written as final is not overwritten: the transcript after it
\* is a new message, and before a final transcript each transcript
\* replaces the text of the last user message.
C26_FinalUserMessageKept ==
  Settled => MessagesOf("user") = UserMessagesFrom(EventsOf("user"), 1, <<>>)

\* The bot messages the events heard make: the first text after a
\* bot-stopped-speaking event, or the first of all, starts a message and
\* the texts up to the next such event are appended to it.
RECURSIVE BotMessagesFrom(_, _, _, _)
BotMessagesFrom(es, i, acc, fresh) ==
  IF i > Len(es) THEN acc
  ELSE IF es[i].type = "stopped" THEN BotMessagesFrom(es, i + 1, acc, TRUE)
  ELSE IF es[i].type # "bot" THEN BotMessagesFrom(es, i + 1, acc, fresh)
  ELSE BotMessagesFrom(es, i + 1,
         IF fresh
         THEN Append(acc, Message("bot", es[i].text, es[i].final))
         ELSE [acc EXCEPT ![Len(acc)] = Message("bot", @.text \o es[i].text, es[i].final)],
         FALSE)

\* Every event so far came when the updates of the events before it had
\* been rendered and the effects had run.
InOrder == \A i \in 1..Len(heard) : heard[i].settled

\* C27: bot text is grouped by utterance, also when every event is
\* rendered before the next one comes.
C27_BotTextGroupedByUtterance ==
  (Settled /\ InOrder) => MessagesOf("bot") = BotMessagesFrom(heard, 1, <<>>, TRUE)

\* C28: a client that reinitializeTransport or the unmount clean-up has
\* disconnected has no handler registered under the name initializeClient
\* registered.
C28_HandlerUnregisteredBeforeDisconnect ==
  \A c \in 1..Len(clients) : clients[c].released => RegisteredName \notin clients[c].handlers

\* The number of changes from false to true along a sequence of
\* aiAssistRunning values, the value before the first being false.
Rises(values) ==
  Cardinality({i \in 1..Len(values) : values[i] /\ (i = 1 \/ ~values[i - 1])})

\* C29 (as claimed): connect has been invoked once for each change of
\* aiAssistRunning from false to true among the scene statuses the
\* glasses reported, and not otherwise.
C29_ConnectOncePerReportedRise ==
  Settled => connectCalls = Rises(emitted)

\* C29 (amended): connect has been invoked once for each change of
\* aiAssistRunning from false to true among the scene statuses the
\* provider's renders saw, and not otherwise.
C29_ConnectOncePerRenderedRise ==
  (mounted /\ "sceneStatus" \notin effects) => connectCalls = Rises(shown)

C29_Witness ==
  /\ Settled
  /\ shown = <<TRUE, FALSE, TRUE>>
  /\ connectCalls = 2

=============================================================================
